---- MODULE Spec2Model ----
(***************************************************************************)
(* Verification model of the ruff benchmark harnesses:                     *)
(*   - benchmarks/cross-language/bench_process_pool.py  (Spec, SpecGate)   *)
(*   - benchmarks/cross-language/bench_ssg.py           (SpecSsg)          *)
(*   - examples/benchmarks/run_benchmarks.py            (SpecRunner)       *)
(* Each harness is a sequential Python program; the process-pool harness   *)
(* additionally drives the worker processes of a ProcessPoolExecutor.      *)
(***************************************************************************)
EXTENDS Integers, Sequences, FiniteSets, TLC

VARIABLES
    \* ---- bench_process_pool.py ----
    values,                 \* the argument of run_serial / run_process_pool
    max_workers,            \* size of the executor's pool (host parallelism)
    chunksize,              \* chunksize argument of executor.map
    entry,                  \* "main", or a direct call of "run_process_pool"
    pc,                     \* position of the calling thread
    iterations,             \* loop counter of the running strategy
    checksum,               \* local checksum of the running strategy
    serial_checksum,        \* main: result of run_serial
    process_pool_checksum,  \* main: result of run_process_pool
    mapped,                 \* the list being gathered by list(executor.map(..))
    chunks,                 \* the futures of the current executor.map call
    workers,                \* state of each worker process of the executor
    completed,              \* history: the chunks in the order their futures completed
    cancel_at,              \* the future the result iterator's cancel loop visits next
    pool_created,           \* number of executors constructed so far
    error,                  \* name of the exception that left the program
    error_args,             \* the values the exception's message names
    output,                 \* the lines printed so far
    \* ---- bench_ssg.py ----
    s_pc, dirs, input_files, output_files, now, readings, start, index,
    pages, s_checksum, read_stage_ms, render_write_stage_ms, elapsed_ms,
    files_per_sec, s_error,
    \* ---- run_benchmarks.py ----
    r_pc, bench, vm_mode, trial, stdout, interp_times, vm_times,
    interp_returned, vm_returned, results, r_error, avg_speedup, verdict

poolVars == <<values, max_workers, chunksize, entry, pc, iterations, checksum,
              serial_checksum, process_pool_checksum, mapped, chunks, workers,
              completed, cancel_at, pool_created, error, error_args, output>>
ssgVars == <<s_pc, dirs, input_files, output_files, now, readings, start, index,
             pages, s_checksum, read_stage_ms, render_write_stage_ms, elapsed_ms,
             files_per_sec, s_error>>
runVars == <<r_pc, bench, vm_mode, trial, stdout, interp_times, vm_times,
             interp_returned, vm_returned, results, r_error, avg_speedup, verdict>>
vars == <<poolVars, ssgVars, runVars>>

(***************************************************************************)
(* Bounds of the model.                                                    *)
(***************************************************************************)
MaxItems == 2          \* longest work list explored
MaxWorkers == 2        \* largest pool explored
MaxChunk == 2          \* chunk sizes 1..MaxChunk are explored beside the reference
Repetitions == 2       \* outer iterations explored (the reference workload runs 500)
MaxChecksum == 7       \* checksums 0..MaxChecksum handed to main's gate in SpecGate

ReferenceChunk == 32   \* chunksize=32

(***************************************************************************)
(* Generic helpers on sequences.                                           *)
(***************************************************************************)
RECURSIVE SumSeq(_)
SumSeq(s) == IF s = <<>> THEN 0 ELSE Head(s) + SumSeq(Tail(s))

RECURSIVE Concat(_)
Concat(ss) == IF ss = <<>> THEN <<>> ELSE Head(ss) \o Concat(Tail(ss))

SeqsUpTo(S, n) == UNION {[1..k -> S] : k \in 0..n}

Min(a, b) == IF a <= b THEN a ELSE b

(***************************************************************************)
(* bench_process_pool.py                                                   *)
(***************************************************************************)
\* A str is a sequence of characters.  NoneItem stands for a value that is
\* not a str (it has no .upper attribute).
NoneItem == <<"<None>">>
Items == { <<"a">>, <<"b", "b">>, <<"\\ss">>, NoneItem }
IsStr(v) == v # NoneItem

\* str.upper() character by character; the German sharp s (written "\\ss")
\* upper-cases to the two characters "SS", so the length can change.
upper_char(c) ==
    CASE c = "a" -> <<"A">>
      [] c = "b" -> <<"B">>
      [] c = "\\ss" -> <<"S", "S">>
      [] OTHER -> <<c>>

\* string_upper_work(value) for a str value
string_upper_work(value) ==
    Concat([i \in 1..Len(value) |-> upper_char(value[i])])

\* string_upper_work raises AttributeError on a value that is not a str
Raises(vals) == \E i \in 1..Len(vals) : ~IsStr(vals[i])

\* [string_upper_work(v) for v in values]
MapWork(vals) == [i \in 1..Len(vals) |-> string_upper_work(vals[i])]

\* sum(len(item) for item in mapped)
SumLen(m) == SumSeq([i \in 1..Len(m) |-> Len(m[i])])

\* ---- run_serial ----
run_serial_iter ==
    /\ pc = "serial_loop"
    /\ iterations < Repetitions
    /\ IF Raises(values)
       THEN /\ pc' = "raised"
            /\ error' = "AttributeError"
            /\ UNCHANGED <<checksum, iterations>>
       ELSE /\ checksum' = checksum + SumLen(MapWork(values))
            /\ iterations' = iterations + 1
            /\ UNCHANGED <<pc, error>>
    /\ UNCHANGED <<cancel_at, completed, values, max_workers, chunksize, entry, serial_checksum,
                   process_pool_checksum, mapped, chunks, workers, pool_created,
                   error_args, output>>
    /\ UNCHANGED <<ssgVars, runVars>>

run_serial_return ==
    /\ pc = "serial_loop"
    /\ iterations >= Repetitions
    /\ serial_checksum' = checksum
    /\ pc' = "pool_enter"
    /\ UNCHANGED <<cancel_at, completed, values, max_workers, chunksize, entry, iterations, checksum,
                   process_pool_checksum, mapped, chunks, workers, pool_created,
                   error, error_args, output>>
    /\ UNCHANGED <<ssgVars, runVars>>

\* ---- run_process_pool ----
\* the contiguous chunks executor.map cuts its iterable into
NumChunks(vals, n) == (Len(vals) + n - 1) \div n
get_chunks_drop_partial(vals, n) ==
    [k \in 1..(Len(vals) \div n) |-> SubSeq(vals, (k - 1) * n + 1, k * n)]
get_chunks(vals, n) ==
    [k \in 1..NumChunks(vals, n) |->
        SubSeq(vals, (k - 1) * n + 1, Min(k * n, Len(vals)))]

WorkerIds == 1..MaxWorkers
Started(w) == w <= max_workers

\* checksum = 0; with ProcessPoolExecutor() as executor: iterations = 0
executor_enter ==
    /\ pc = "pool_enter"
    /\ checksum' = 0
    /\ pool_created' = pool_created + 1
    /\ iterations' = 0
    /\ pc' = "pool_loop"
    /\ UNCHANGED <<cancel_at, completed, values, max_workers, chunksize, entry,
                   serial_checksum, process_pool_checksum, mapped, chunks,
                   workers, error, error_args, output>>
    /\ UNCHANGED <<ssgVars, runVars>>

\* executor.map(string_upper_work, values, chunksize=..) begins: the chunks
\* are cut, and the futures of the previous call are dropped
executor_map ==
    /\ pc = "pool_loop"
    /\ iterations < Repetitions
    /\ chunks' = <<>>
    /\ completed' = <<>>
    /\ mapped' = <<>>
    /\ pc' = IF Len(get_chunks(values, chunksize)) = 0
             THEN "pool_gather" ELSE "pool_submit"
    /\ UNCHANGED <<cancel_at, values, max_workers, chunksize, entry, iterations,
                   checksum, serial_checksum, process_pool_checksum, workers,
                   pool_created, error, error_args, output>>
    /\ UNCHANGED <<ssgVars, runVars>>

\* fs = [self.submit(fn, *args) for args in ..]: one submit per step, each
\* under the executor's lock; the next chunk becomes a pending future, and
\* the first submit of the executor starts the worker processes.  Between two
\* submits the manager thread and the workers run.
submit_chunk ==
    /\ pc = "pool_submit"
    /\ Len(chunks) < Len(get_chunks(values, chunksize))
    /\ LET k == Len(chunks) + 1 IN
        /\ chunks' = Append(chunks,
                        [items |-> get_chunks(values, chunksize)[k],
                         state |-> "pending", worker |-> 0, result |-> <<>>])
        /\ pc' = IF k = Len(get_chunks(values, chunksize))
                 THEN "pool_gather" ELSE pc
    /\ workers' = [w \in WorkerIds |->
                     IF Started(w) /\ workers[w] = "unstarted"
                     THEN "idle" ELSE workers[w]]
    /\ UNCHANGED <<cancel_at, completed, values, max_workers, chunksize, entry,
                   iterations, checksum, serial_checksum, process_pool_checksum,
                   mapped, pool_created, error, error_args, output>>
    /\ UNCHANGED <<ssgVars, runVars>>

\* the executor's call queue holds max_workers + EXTRA_QUEUED_CALLS calls
QueueSize == max_workers + 1
Pending == {c \in DOMAIN chunks : chunks[c].state = "pending"}
FirstPending == CHOOSE c \in Pending : \A d \in Pending : c <= d
Queued == {c \in DOMAIN chunks : chunks[c].state = "queued"}
FirstQueued == CHOOSE c \in Queued : \A d \in Queued : c <= d

\* add_call_item_to_queue in the executor's manager thread: while the call
\* queue is not full, the oldest pending future is set running and its call
\* is put on the call queue; from then on the future cannot be cancelled
queue_call ==
    /\ Pending # {}
    /\ Cardinality(Queued) < QueueSize
    /\ chunks' = [chunks EXCEPT ![FirstPending].state = "queued"]
    /\ UNCHANGED <<cancel_at, completed, values, max_workers, chunksize, entry, pc,
                   iterations, checksum, serial_checksum, process_pool_checksum,
                   mapped, workers, pool_created, error, error_args, output>>
    /\ UNCHANGED <<ssgVars, runVars>>

\* an idle worker takes the next call off the executor's call queue
worker_take(w) ==
    /\ workers[w] = "idle"
    /\ Queued # {}
    /\ chunks' = [chunks EXCEPT ![FirstQueued].state = "running",
                                ![FirstQueued].worker = w]
    /\ workers' = [workers EXCEPT ![w] = "busy"]
    /\ UNCHANGED <<cancel_at, completed, values, max_workers, chunksize, entry, pc,
                   iterations, checksum, serial_checksum, process_pool_checksum,
                   mapped, pool_created, error, error_args, output>>
    /\ UNCHANGED <<ssgVars, runVars>>

\* _process_chunk in the worker: the transform is applied to each item of the
\* chunk; the list of results, or the exception, completes the future
worker_finish(w) ==
    /\ workers[w] = "busy"
    /\ \E c \in DOMAIN chunks :
        /\ chunks[c].state = "running"
        /\ chunks[c].worker = w
        /\ completed' = Append(completed, c)
        /\ chunks' = IF Raises(chunks[c].items)
                     THEN [chunks EXCEPT ![c].state = "failed"]
                     ELSE [chunks EXCEPT ![c].state = "done",
                                         ![c].result = MapWork(chunks[c].items)]
    /\ workers' = [workers EXCEPT ![w] = "idle"]
    /\ UNCHANGED <<cancel_at, values, max_workers, chunksize, entry, pc, iterations,
                   checksum, serial_checksum, process_pool_checksum, mapped,
                   pool_created, error, error_args, output>>
    /\ UNCHANGED <<ssgVars, runVars>>

\* the result iterator of executor.map yields the futures' results in the
\* order the futures were submitted: chunk c is next when every chunk before
\* it has been consumed
NextAsCompleted(c) ==
    chunks[c].state \in {"pending", "queued", "running", "done", "failed"}
NextInOrder(c) ==
    /\ chunks[c].state \in {"pending", "queued", "running", "done", "failed"}
    /\ \A d \in 1..(c - 1) : chunks[d].state = "gathered"

\* list(...) consumes the next chunk's results
gather_chunk ==
    /\ pc = "pool_gather"
    /\ \E c \in DOMAIN chunks :
        /\ NextInOrder(c)
        /\ chunks[c].state = "done"
        /\ mapped' = mapped \o chunks[c].result
        /\ chunks' = [chunks EXCEPT ![c].state = "gathered"]
    /\ UNCHANGED <<cancel_at, completed, values, max_workers, chunksize, entry, pc,
                   iterations, checksum, serial_checksum, process_pool_checksum,
                   workers, pool_created, error, error_args, output>>
    /\ UNCHANGED <<ssgVars, runVars>>

\* the next chunk's future holds an exception: result() re-raises it inside
\* the result iterator, whose finally clause then walks the futures it has
\* not yielded, from the last submitted to the first
gather_raise ==
    /\ pc = "pool_gather"
    /\ \E c \in DOMAIN chunks :
        /\ NextInOrder(c)
        /\ chunks[c].state = "failed"
        /\ pc' = IF c = Len(chunks) THEN "pool_exit_exc" ELSE "pool_cancel"
    /\ cancel_at' = Len(chunks)
    /\ error' = "AttributeError"
    /\ UNCHANGED <<completed, values, max_workers, chunksize, entry, iterations,
                   checksum, serial_checksum, process_pool_checksum, mapped,
                   chunks, workers, pool_created, error_args, output>>
    /\ UNCHANGED <<ssgVars, runVars>>

\* the futures the result iterator has yielded or raised from
Consumed == {c \in DOMAIN chunks : \A d \in 1..(c - 1) : chunks[d].state = "gathered"}

\* for future in fs: future.cancel(), one future per step: a future that is
\* still pending is cancelled, one that is queued, running or finished is
\* left alone; the manager thread and the workers run between two steps
cancel_future ==
    /\ pc = "pool_cancel"
    /\ chunks' = IF chunks[cancel_at].state = "pending"
                 THEN [chunks EXCEPT ![cancel_at].state = "cancelled"]
                 ELSE chunks
    /\ cancel_at' = cancel_at - 1
    /\ pc' = IF cancel_at - 1 \in Consumed THEN "pool_exit_exc" ELSE pc
    /\ UNCHANGED <<completed, values, max_workers, chunksize, entry, iterations,
                   checksum, serial_checksum, process_pool_checksum, mapped,
                   workers, pool_created, error, error_args, output>>
    /\ UNCHANGED <<ssgVars, runVars>>

AllGathered == \A c \in DOMAIN chunks : chunks[c].state = "gathered"

\* checksum += sum(len(item) for item in mapped); iterations += 1
accumulate ==
    /\ pc = "pool_gather"
    /\ AllGathered
    /\ checksum' = checksum + SumLen(mapped)
    /\ iterations' = iterations + 1
    /\ pc' = "pool_loop"
    /\ UNCHANGED <<cancel_at, completed, values, max_workers, chunksize, entry,
                   serial_checksum, process_pool_checksum, mapped, chunks,
                   workers, pool_created, error, error_args, output>>
    /\ UNCHANGED <<ssgVars, runVars>>

Leaving == \/ pc = "pool_loop" /\ iterations >= Repetitions
           \/ pc = "pool_exit_exc"

\* the futures whose calls the executor still has to run
Unfinished == {c \in DOMAIN chunks :
                 chunks[c].state \in {"pending", "queued", "running"}}

\* the with statement's __exit__ is executor.shutdown(wait=True): it returns
\* once every call that was not cancelled has finished and every worker
\* process is joined
executor_exit_nowait ==
    /\ Leaving
    /\ pc' = IF pc = "pool_exit_exc" THEN "raised" ELSE "pool_return"
    /\ UNCHANGED <<cancel_at, completed, values, max_workers, chunksize, entry,
                   iterations, checksum, serial_checksum, process_pool_checksum,
                   mapped, chunks, workers, pool_created, error, error_args,
                   output>>
    /\ UNCHANGED <<ssgVars, runVars>>
executor_exit ==
    /\ Leaving
    /\ Unfinished = {}
    /\ \A w \in WorkerIds : workers[w] # "busy"
    /\ workers' = [w \in WorkerIds |->
                     IF workers[w] = "idle" THEN "joined" ELSE workers[w]]
    /\ pc' = IF pc = "pool_exit_exc" THEN "raised" ELSE "pool_return"
    /\ UNCHANGED <<cancel_at, completed, values, max_workers, chunksize, entry,
                   iterations, checksum, serial_checksum, process_pool_checksum,
                   mapped, chunks, pool_created, error, error_args, output>>
    /\ UNCHANGED <<ssgVars, runVars>>

\* return elapsed_ms, checksum
run_process_pool_return ==
    /\ pc = "pool_return"
    /\ process_pool_checksum' = checksum
    /\ pc' = IF entry = "main" THEN "check" ELSE "returned"
    /\ UNCHANGED <<cancel_at, completed, values, max_workers, chunksize, entry, iterations, checksum,
                   serial_checksum, mapped, chunks, workers, pool_created,
                   error, error_args, output>>
    /\ UNCHANGED <<ssgVars, runVars>>

\* ---- main ----
\* if serial_checksum != process_pool_checksum: raise RuntimeError(..)
Mismatch(a, b) == a # b
main_check_lenient ==
    /\ pc = "check"
    /\ pc' = "print"
    /\ UNCHANGED <<error, error_args>>
    /\ UNCHANGED <<cancel_at, completed, values, max_workers, chunksize, entry, iterations, checksum,
                   serial_checksum, process_pool_checksum, mapped, chunks,
                   workers, pool_created, output>>
    /\ UNCHANGED <<ssgVars, runVars>>
main_check ==
    /\ pc = "check"
    /\ IF Mismatch(serial_checksum, process_pool_checksum)
       THEN /\ pc' = "raised"
            /\ error' = "RuntimeError: Checksum mismatch"
            /\ error_args' = <<serial_checksum, process_pool_checksum>>
       ELSE /\ pc' = "print"
            /\ UNCHANGED <<error, error_args>>
    /\ UNCHANGED <<cancel_at, completed, values, max_workers, chunksize, entry, iterations, checksum,
                   serial_checksum, process_pool_checksum, mapped, chunks,
                   workers, pool_created, output>>
    /\ UNCHANGED <<ssgVars, runVars>>

\* the three print calls; the two elapsed times are wall-clock measurements
\* and are printed as such
main_print ==
    /\ pc = "print"
    /\ output' = output \o << <<"PYTHON_SERIAL_MS", "serial_ms">>,
                              <<"PYTHON_PROCESS_POOL_MS", "process_pool_ms">>,
                              <<"PYTHON_PROCESS_POOL_CHECKSUM",
                                ToString(process_pool_checksum)>> >>
    /\ pc' = "done"
    /\ UNCHANGED <<cancel_at, completed, values, max_workers, chunksize, entry, iterations, checksum,
                   serial_checksum, process_pool_checksum, mapped, chunks,
                   workers, pool_created, error, error_args>>
    /\ UNCHANGED <<ssgVars, runVars>>

(***************************************************************************)
(* bench_ssg.py                                                            *)
(***************************************************************************)
FileCount == 2         \* files explored (the reference corpus has 10_000)
MaxDelta == 2          \* largest advance of the clock between two readings

\* f"# Post {index}\n\nGenerated page {index}"
PostText(i) == "# Post " \o ToString(i) \o "\n\nGenerated page " \o ToString(i)

\* f"<html><body><h1>Post {index}</h1><article>{page}</article></body></html>"
Html(i, page) ==
    "<html><body><h1>Post " \o ToString(i) \o "</h1>"
        \o "<article>" \o page \o "</article></body></html>"

TreeDirs == {"base_dir", "input_dir", "output_dir"}
\* a file on disk: the text being written to it and the number of its
\* characters that reached the disk (all of them once write_text returned)
NoFiles == [i \in {} |-> [text |-> "", size |-> 0]]
File(text, size) == [text |-> text, size |-> size]
WriteFile(files, i, f) ==
    [j \in DOMAIN files \cup {i} |-> IF j = i THEN f ELSE files[j]]
\* what a failed write_text leaves behind: nothing (the open failed), or the
\* file with only a part of the text, possibly none of it
FailedWrites(files, i, text) ==
    {files} \cup {WriteFile(files, i, File(text, n)) : n \in 0..(Len(text) - 1)}
\* Path.read_text of a completely written file
ReadText(f) == f.text
Restrict(files, keep) == [j \in keep |-> files[j]]

\* a reading of time.perf_counter(): never before the previous reading
Readings == now..(now + MaxDelta)

\* (time.perf_counter() - start) * 1000.0
SinceStartMs(r) == (r - start) * 1000

\* ((time.perf_counter() - start) * 1000.0) - read_stage_ms
RenderWriteCumulative(r) == SinceStartMs(r)
RenderWriteStageMs(r) == SinceStartMs(r) - read_stage_ms

\* (file_count * 1000.0) / elapsed_ms if elapsed_ms > 0 else 0.0, as the
\* fraction <<numerator, denominator>>
FilesPerSec(ms) == IF ms > 0 THEN <<FileCount * 1000, ms>> ELSE <<0, 1>>

\* tmp_root.mkdir(parents=True, exist_ok=True), before the try statement
mkdir_tmp_root ==
    /\ s_pc = "mkdir_tmp_root"
    /\ \E ok \in BOOLEAN :
        IF ok
        THEN /\ dirs' = dirs \cup {"tmp_root"}
             /\ s_pc' = "mkdir_input_dir"
             /\ UNCHANGED s_error
        ELSE /\ s_pc' = "raised"
             /\ s_error' = "OSError"
             /\ UNCHANGED dirs
    /\ UNCHANGED <<input_files, output_files, now, readings, start, index,
                   pages, s_checksum, read_stage_ms, render_write_stage_ms,
                   elapsed_ms, files_per_sec>>
    /\ UNCHANGED <<poolVars, runVars>>

\* input_dir.mkdir(parents=True, exist_ok=True), before the try statement:
\* creates base_dir, then input_dir; either creation can fail
mkdir_input_dir ==
    /\ s_pc = "mkdir_input_dir"
    /\ \E made \in {{}, {"base_dir"}, {"base_dir", "input_dir"}} :
        /\ dirs' = dirs \cup made
        /\ IF "input_dir" \in made
           THEN s_pc' = "mkdir_output_dir" /\ UNCHANGED s_error
           ELSE s_pc' = "raised" /\ s_error' = "OSError"
    /\ UNCHANGED <<input_files, output_files, now, readings, start, index,
                   pages, s_checksum, read_stage_ms, render_write_stage_ms,
                   elapsed_ms, files_per_sec>>
    /\ UNCHANGED <<poolVars, runVars>>

\* output_dir.mkdir(parents=True, exist_ok=True), before the try statement
mkdir_output_dir ==
    /\ s_pc = "mkdir_output_dir"
    /\ \E ok \in BOOLEAN :
        IF ok
        THEN /\ dirs' = dirs \cup {"output_dir"}
             /\ s_pc' = "populate"
             /\ UNCHANGED s_error
        ELSE /\ s_pc' = "raised"
             /\ s_error' = "OSError"
             /\ UNCHANGED dirs
    /\ index' = 0
    /\ UNCHANGED <<input_files, output_files, now, readings, start,
                   pages, s_checksum, read_stage_ms, render_write_stage_ms,
                   elapsed_ms, files_per_sec>>
    /\ UNCHANGED <<poolVars, runVars>>

\* first loop of the try block: source_path.write_text(..)
populate_file ==
    /\ s_pc = "populate"
    /\ index < FileCount
    /\ \E ok \in BOOLEAN :
        IF ok
        THEN /\ input_files' = WriteFile(input_files, index,
                                          File(PostText(index),
                                               Len(PostText(index))))
             /\ index' = index + 1
             /\ UNCHANGED <<s_pc, s_error>>
        ELSE /\ input_files' \in
                    FailedWrites(input_files, index, PostText(index))
             /\ s_pc' = "finally_raise"
             /\ s_error' = "OSError"
             /\ UNCHANGED index
    /\ UNCHANGED <<dirs, output_files, now, readings, start,
                   pages, s_checksum, read_stage_ms, render_write_stage_ms,
                   elapsed_ms, files_per_sec>>
    /\ UNCHANGED <<poolVars, runVars>>

\* start = time.perf_counter(); pages = []
take_start ==
    /\ s_pc = "populate"
    /\ index = FileCount
    /\ \E r \in Readings :
        /\ now' = r
        /\ readings' = Append(readings, r)
        /\ start' = r
    /\ pages' = <<>>
    /\ index' = 0
    /\ s_pc' = "read"
    /\ UNCHANGED <<dirs, input_files, output_files, s_checksum, read_stage_ms,
                   render_write_stage_ms, elapsed_ms, files_per_sec, s_error>>
    /\ UNCHANGED <<poolVars, runVars>>

\* second loop: pages.append(source_path.read_text(..))
read_file ==
    /\ s_pc = "read"
    /\ index < FileCount
    /\ \E ok \in BOOLEAN :
        IF ok /\ index \in DOMAIN input_files
        THEN /\ pages' = Append(pages, ReadText(input_files[index]))
             /\ index' = index + 1
             /\ UNCHANGED <<s_pc, s_error>>
        ELSE /\ s_pc' = "finally_raise"
             /\ s_error' = "OSError"
             /\ UNCHANGED <<pages, index>>
    /\ UNCHANGED <<dirs, input_files, output_files, now, readings, start,
                   s_checksum, read_stage_ms, render_write_stage_ms,
                   elapsed_ms, files_per_sec>>
    /\ UNCHANGED <<poolVars, runVars>>

\* read_stage_ms = (time.perf_counter() - start) * 1000.0; checksum = 0
read_stage_done ==
    /\ s_pc = "read"
    /\ index = FileCount
    /\ \E r \in Readings :
        /\ now' = r
        /\ readings' = Append(readings, r)
        /\ read_stage_ms' = SinceStartMs(r)
    /\ s_checksum' = 0
    /\ index' = 0
    /\ s_pc' = "render"
    /\ UNCHANGED <<dirs, input_files, output_files, start, pages,
                   render_write_stage_ms, elapsed_ms, files_per_sec, s_error>>
    /\ UNCHANGED <<poolVars, runVars>>

\* third loop: render page index, add its length to the checksum, write it
render_write ==
    /\ s_pc = "render"
    /\ index < Len(pages)
    /\ LET html == Html(index, pages[index + 1]) IN
        /\ s_checksum' = s_checksum + Len(html)
        /\ \E ok \in BOOLEAN :
            IF ok
            THEN /\ output_files' = WriteFile(output_files, index,
                                               File(html, Len(html)))
                 /\ index' = index + 1
                 /\ UNCHANGED <<s_pc, s_error>>
            ELSE /\ output_files' \in FailedWrites(output_files, index, html)
                 /\ s_pc' = "finally_raise"
                 /\ s_error' = "OSError"
                 /\ UNCHANGED index
    /\ UNCHANGED <<dirs, input_files, now, readings, start, pages,
                   read_stage_ms, render_write_stage_ms, elapsed_ms,
                   files_per_sec>>
    /\ UNCHANGED <<poolVars, runVars>>

\* render_write_stage_ms, elapsed_ms and files_per_sec: two further readings
\* of the clock, then the return statement enters the finally clause
stage_totals ==
    /\ s_pc = "render"
    /\ index = Len(pages)
    /\ \E r3 \in Readings : \E r4 \in r3..(r3 + MaxDelta) :
        /\ now' = r4
        /\ readings' = readings \o <<r3, r4>>
        /\ render_write_stage_ms' = RenderWriteStageMs(r3)
        /\ elapsed_ms' = SinceStartMs(r4)
        /\ files_per_sec' = FilesPerSec(SinceStartMs(r4))
    /\ s_pc' = "finally_return"
    /\ UNCHANGED <<dirs, input_files, output_files, start, index, pages,
                   s_checksum, read_stage_ms, s_error>>
    /\ UNCHANGED <<poolVars, runVars>>

\* what shutil.rmtree(base_dir, ignore_errors=True) can leave behind: every
\* removal of a file or of a directory either succeeds or fails and is
\* ignored; a directory goes only when everything in it is gone
Leftovers ==
    {t \in [keep_in : SUBSET DOMAIN input_files,
            keep_out : SUBSET DOMAIN output_files,
            keep_dirs : SUBSET (dirs \cap TreeDirs)] :
        /\ t.keep_in # {} => "input_dir" \in t.keep_dirs
        /\ t.keep_out # {} => "output_dir" \in t.keep_dirs
        /\ t.keep_dirs # {} => "base_dir" \in t.keep_dirs}

\* finally: shutil.rmtree(base_dir, ignore_errors=True): the tree is removed
\* as far as the removals succeed and the failures are ignored; then the
\* function returns or the pending exception propagates
finally_rmtree ==
    /\ s_pc \in {"finally_return", "finally_raise"}
    /\ \E t \in Leftovers :
        /\ dirs' = (dirs \ TreeDirs) \cup t.keep_dirs
        /\ input_files' = Restrict(input_files, t.keep_in)
        /\ output_files' = Restrict(output_files, t.keep_out)
    /\ s_pc' = IF s_pc = "finally_return" THEN "returned" ELSE "raised"
    /\ UNCHANGED <<now, readings, start, index, pages, s_checksum,
                   read_stage_ms, render_write_stage_ms, elapsed_ms,
                   files_per_sec, s_error>>
    /\ UNCHANGED <<poolVars, runVars>>

(***************************************************************************)
(* run_benchmarks.py                                                       *)
(* A float is modelled exactly, as the fraction <<numerator, denominator>> *)
(* in lowest terms with a positive denominator.                            *)
(***************************************************************************)
NumBenchmarks == 2     \* benchmarks explored (the catalog lists 7)
Trials == 3            \* for _ in range(3)
SpeedupTarget == 10    \* if avg_speedup >= 10

benchmarks == <<"fibonacci.ruff", "primes.ruff", "sorting.ruff", "strings.ruff",
                "dict_ops.ruff", "nested_loops.ruff", "higher_order.ruff">>

Abs(n) == IF n < 0 THEN -n ELSE n
RECURSIVE Gcd(_, _)
Gcd(a, b) == IF b = 0 THEN a ELSE Gcd(b, a % b)
\* the fraction n/d (d > 0) in lowest terms
Frac(n, d) == LET g == Gcd(Abs(n), d) IN <<n \div g, d \div g>>
FracOf(n) == <<n, 1>>
FracDiv(x, y) ==
    IF y[1] > 0 THEN Frac(x[1] * y[2], x[2] * y[1])
                ELSE Frac(-(x[1] * y[2]), x[2] * (-y[1]))
FracAdd(x, y) == Frac(x[1] * y[2] + y[1] * x[2], x[2] * y[2])
FracLess(x, y) == x[1] * y[2] < y[1] * x[2]
FracPositive(x) == x[1] > 0
RECURSIVE FracSum(_)
FracSum(s) == IF s = <<>> THEN FracOf(0) ELSE FracAdd(Head(s), FracSum(Tail(s)))

\* ---- the captured standard output, as a sequence of tokens ----
MARK == "Time taken:"
UNIT == "ms"
NL == "\n"
SP == " "
Digits == {"0", "1", "2"}
DigitVal(c) == CASE c = "0" -> 0 [] c = "1" -> 1 [] c = "2" -> 2

\* the standard outputs a child process is let to print
ChildOutputs == {
    <<>>,
    <<"done", NL>>,
    <<MARK, SP, "1", SP, UNIT, NL>>,
    <<"done", NL, MARK, SP, "1", SP, UNIT, NL, MARK, SP, "0", SP, UNIT>>,
    <<MARK, SP, "0", SP, UNIT, NL>>,
    <<MARK, SP, "-", "1", SP, UNIT, NL>>,
    <<MARK, SP, "1", NL>>,
    <<MARK, SP, "x", SP, UNIT, NL>>,
    <<MARK, SP, UNIT, NL>> }

Contains(s, tok) == \E i \in 1..Len(s) : s[i] = tok
FirstIndex(s, tok) == CHOOSE i \in 1..Len(s) :
                        s[i] = tok /\ \A j \in 1..(i - 1) : s[j] # tok

\* str.split(sep)
RECURSIVE Split(_, _)
Split(s, sep) ==
    IF ~Contains(s, sep) THEN <<s>>
    ELSE LET i == FirstIndex(s, sep) IN
         <<SubSeq(s, 1, i - 1)>> \o Split(SubSeq(s, i + 1, Len(s)), sep)

\* str.strip()
RECURSIVE LStrip(_)
LStrip(s) == IF s # <<>> /\ Head(s) = SP THEN LStrip(Tail(s)) ELSE s
RECURSIVE RStrip(_)
RStrip(s) == IF s # <<>> /\ s[Len(s)] = SP
             THEN RStrip(SubSeq(s, 1, Len(s) - 1)) ELSE s
Strip(s) == RStrip(LStrip(s))

\* float(text): an optional sign and at least one digit, else ValueError
Unsigned(s) == IF s # <<>> /\ Head(s) = "-" THEN Tail(s) ELSE s
IsFloat(s) == LET u == Unsigned(Strip(s)) IN
              u # <<>> /\ \A i \in 1..Len(u) : u[i] \in Digits
RECURSIVE Decimal(_)
Decimal(u) == IF u = <<>> THEN 0
              ELSE 10 * Decimal(SubSeq(u, 1, Len(u) - 1)) + DigitVal(u[Len(u)])
FloatOf(s) == LET t == Strip(s) IN
              IF t # <<>> /\ Head(t) = "-" THEN FracOf(-Decimal(Tail(t)))
                                           ELSE FracOf(Decimal(t))

\* line.split("Time taken:")[1].split("ms")[0].strip()
TimeStr(line) == Strip(Split(Split(line, MARK)[2], UNIT)[1])

None == [kind |-> "None", value |-> FracOf(0)]
Float(x) == [kind |-> "float", value |-> x]
ValueError == [kind |-> "ValueError", value |-> FracOf(0)]

\* the for loop of run_benchmark over output.split('\n'): the first line
\* holding the marker decides the result
RECURSIVE ScanLines(_)
ScanLines(lines) ==
    IF lines = <<>> THEN None
    ELSE IF Contains(Head(lines), MARK)
         THEN IF IsFloat(TimeStr(Head(lines)))
              THEN Float(FloatOf(TimeStr(Head(lines))))
              ELSE ValueError
         ELSE ScanLines(Tail(lines))

\* run_benchmark(file, vm_mode) on the child's captured standard output
run_benchmark(out) == ScanLines(Split(out, NL))

\* `if t:` -- None and 0.0 are falsy
Truthy(t) == t.kind = "float" /\ t.value[1] # 0
Present(t) == t.kind = "float"

\* statistics.median
RECURSIVE Insert(_, _)
Insert(x, s) == IF s = <<>> THEN <<x>>
                ELSE IF ~FracLess(Head(s), x) THEN <<x>> \o s
                ELSE <<Head(s)>> \o Insert(x, Tail(s))
RECURSIVE Sorted(_)
Sorted(s) == IF s = <<>> THEN <<>> ELSE Insert(Head(s), Sorted(Tail(s)))
median(s) == LET d == Sorted(s)
                 n == Len(s)
             IN IF n % 2 = 1 THEN d[(n + 1) \div 2]
                ELSE FracDiv(FracAdd(d[n \div 2], d[n \div 2 + 1]), FracOf(2))

\* statistics.mean of a non-empty list
mean(s) == FracDiv(FracSum(s), FracOf(Len(s)))

\* interp_median / vm_median if vm_median > 0 else 0
Speedup(interp_median, vm_median) ==
    IF FracPositive(vm_median) THEN FracDiv(interp_median, vm_median)
                               ELSE FracOf(0)

\* one pass of a `for _ in range(3)` loop: the child runs, run_benchmark
\* scans what it printed, and a truthy result is appended to the sample
run_trial ==
    /\ r_pc = "trials"
    /\ \E out \in ChildOutputs :
        LET t == run_benchmark(out) IN
        /\ stdout' = out
        /\ IF t = ValueError
           THEN /\ r_pc' = "raised"
                /\ r_error' = "ValueError"
                /\ UNCHANGED <<interp_times, vm_times, interp_returned,
                               vm_returned, trial, vm_mode>>
           ELSE /\ IF vm_mode
                   THEN /\ vm_returned' = Append(vm_returned, t)
                        /\ vm_times' = IF Truthy(t)
                                       THEN Append(vm_times, t.value)
                                       ELSE vm_times
                        /\ UNCHANGED <<interp_returned, interp_times>>
                   ELSE /\ interp_returned' = Append(interp_returned, t)
                        /\ interp_times' = IF Truthy(t)
                                           THEN Append(interp_times, t.value)
                                           ELSE interp_times
                        /\ UNCHANGED <<vm_returned, vm_times>>
                /\ IF trial + 1 < Trials
                   THEN trial' = trial + 1 /\ UNCHANGED <<vm_mode, r_pc>>
                   ELSE /\ trial' = 0
                        /\ IF vm_mode
                           THEN r_pc' = "record" /\ UNCHANGED vm_mode
                           ELSE vm_mode' = TRUE /\ UNCHANGED r_pc
                /\ UNCHANGED r_error
    /\ UNCHANGED <<bench, results, avg_speedup, verdict>>
    /\ UNCHANGED <<poolVars, ssgVars>>

\* if interp_times and vm_times: the medians and the speedup are appended to
\* results; then the next benchmark starts with empty samples
Record(name, it, vt) ==
    [name |-> name, interp |-> median(it), vm |-> median(vt),
     speedup |-> Speedup(median(it), median(vt))]

record_benchmark ==
    /\ r_pc = "record"
    /\ results' = IF interp_times # <<>> /\ vm_times # <<>>
                  THEN Append(results,
                              Record(benchmarks[bench], interp_times, vm_times))
                  ELSE results
    /\ bench' = bench + 1
    /\ r_pc' = IF bench < NumBenchmarks THEN "trials" ELSE "summary"
    /\ interp_times' = <<>>
    /\ vm_times' = <<>>
    /\ interp_returned' = <<>>
    /\ vm_returned' = <<>>
    /\ vm_mode' = FALSE
    /\ UNCHANGED <<trial, stdout, r_error, avg_speedup, verdict>>
    /\ UNCHANGED <<poolVars, ssgVars>>

\* the summary table (one row per record of results), then
\* avg_speedup = statistics.mean([r['speedup'] for r in results]), which
\* raises StatisticsError on an empty list, and the verdict
summarize ==
    /\ r_pc = "summary"
    /\ IF results = <<>>
       THEN /\ r_pc' = "raised"
            /\ r_error' = "StatisticsError"
            /\ UNCHANGED <<avg_speedup, verdict>>
       ELSE LET avg == mean([i \in 1..Len(results) |-> results[i].speedup]) IN
            /\ avg_speedup' = avg
            /\ verdict' = IF ~FracLess(avg, FracOf(SpeedupTarget))
                          THEN "SUCCESS" ELSE "below target"
            /\ r_pc' = "done"
            /\ UNCHANGED r_error
    /\ UNCHANGED <<bench, vm_mode, trial, stdout, interp_times, vm_times,
                   interp_returned, vm_returned, results>>
    /\ UNCHANGED <<poolVars, ssgVars>>

(***************************************************************************)
(* Initial states and specifications.                                      *)
(***************************************************************************)
PoolIdle ==
    /\ values = <<>> /\ max_workers = 1 /\ chunksize = ReferenceChunk
    /\ entry = "main" /\ pc = "idle" /\ iterations = 0 /\ checksum = 0
    /\ serial_checksum = 0 /\ process_pool_checksum = 0
    /\ mapped = <<>> /\ chunks = <<>> /\ completed = <<>> /\ cancel_at = 0
    /\ workers = [w \in WorkerIds |-> "unstarted"]
    /\ pool_created = 0 /\ error = "" /\ error_args = <<>> /\ output = <<>>

SsgIdle ==
    /\ s_pc = "idle" /\ dirs = {} /\ input_files = NoFiles
    /\ output_files = NoFiles /\ now = 0 /\ readings = <<>> /\ start = 0
    /\ index = 0 /\ pages = <<>> /\ s_checksum = 0 /\ read_stage_ms = 0
    /\ render_write_stage_ms = 0 /\ elapsed_ms = 0
    /\ files_per_sec = <<0, 1>> /\ s_error = ""

RunIdle ==
    /\ r_pc = "idle" /\ bench = 1 /\ vm_mode = FALSE /\ trial = 0
    /\ stdout = <<>> /\ interp_times = <<>> /\ vm_times = <<>>
    /\ interp_returned = <<>> /\ vm_returned = <<>> /\ results = <<>>
    /\ r_error = "" /\ avg_speedup = <<0, 1>> /\ verdict = ""

\* bench_process_pool.py: main, or run_process_pool called on its own, on a
\* work list, a pool size and a chunk size
Init ==
    /\ values \in SeqsUpTo(Items, MaxItems)
    /\ max_workers \in 1..MaxWorkers
    /\ chunksize \in (1..MaxChunk) \cup {ReferenceChunk}
    /\ entry \in {"main", "run_process_pool"}
    /\ pc = IF entry = "main" THEN "serial_loop" ELSE "pool_enter"
    /\ iterations = 0 /\ checksum = 0
    /\ serial_checksum = 0 /\ process_pool_checksum = 0
    /\ mapped = <<>> /\ chunks = <<>> /\ completed = <<>> /\ cancel_at = 0
    /\ workers = [w \in WorkerIds |-> "unstarted"]
    /\ pool_created = 0 /\ error = "" /\ error_args = <<>> /\ output = <<>>
    /\ SsgIdle /\ RunIdle

Next ==
    \/ run_serial_iter
    \/ run_serial_return
    \/ executor_enter
    \/ executor_map
    \/ submit_chunk
    \/ queue_call
    \/ \E w \in WorkerIds : worker_take(w)
    \/ \E w \in WorkerIds : worker_finish(w)
    \/ gather_chunk
    \/ gather_raise
    \/ cancel_future
    \/ accumulate
    \/ executor_exit
    \/ run_process_pool_return
    \/ main_check
    \/ main_print

Spec == Init /\ [][Next]_vars

\* main of bench_process_pool.py from its comparison on, for every pair of
\* checksums the two strategy calls may hand back
InitGate ==
    /\ values = <<>> /\ max_workers = 1 /\ chunksize = ReferenceChunk
    /\ entry = "main" /\ pc = "check" /\ iterations = 0 /\ checksum = 0
    /\ serial_checksum \in 0..MaxChecksum
    /\ process_pool_checksum \in 0..MaxChecksum
    /\ mapped = <<>> /\ chunks = <<>> /\ completed = <<>> /\ cancel_at = 0
    /\ workers = [w \in WorkerIds |-> "unstarted"]
    /\ pool_created = 0 /\ error = "" /\ error_args = <<>> /\ output = <<>>
    /\ SsgIdle /\ RunIdle

NextGate ==
    \/ main_check
    \/ main_print

SpecGate == InitGate /\ [][NextGate]_vars

\* bench_ssg.py: run_ssg_benchmark; the scratch root may exist already
InitSsg ==
    /\ s_pc = "mkdir_tmp_root"
    /\ dirs \in {{}, {"tmp_root"}}
    /\ input_files = NoFiles /\ output_files = NoFiles
    /\ now = 0 /\ readings = <<>> /\ start = 0
    /\ index = 0 /\ pages = <<>> /\ s_checksum = 0 /\ read_stage_ms = 0
    /\ render_write_stage_ms = 0 /\ elapsed_ms = 0
    /\ files_per_sec = <<0, 1>> /\ s_error = ""
    /\ PoolIdle /\ RunIdle

NextSsg ==
    \/ mkdir_tmp_root
    \/ mkdir_input_dir
    \/ mkdir_output_dir
    \/ populate_file
    \/ take_start
    \/ read_file
    \/ read_stage_done
    \/ render_write
    \/ stage_totals
    \/ finally_rmtree

SpecSsg == InitSsg /\ [][NextSsg]_vars

\* run_benchmarks.py: main
InitRunner ==
    /\ r_pc = "trials" /\ bench = 1 /\ vm_mode = FALSE /\ trial = 0
    /\ stdout = <<>> /\ interp_times = <<>> /\ vm_times = <<>>
    /\ interp_returned = <<>> /\ vm_returned = <<>> /\ results = <<>>
    /\ r_error = "" /\ avg_speedup = <<0, 1>> /\ verdict = ""
    /\ PoolIdle /\ SsgIdle

NextRunner ==
    \/ run_trial
    \/ record_benchmark
    \/ summarize

SpecRunner == InitRunner /\ [][NextRunner]_vars

(***************************************************************************)
(* Claims.                                                                 *)
(***************************************************************************)
LeftPool == \/ pc \in {"pool_return", "check", "print", "done", "returned"}
            \/ pc = "raised" /\ pool_created > 0

\* C1: whatever the work list, the pool size, the chunk size and the order in
\* which the workers complete their chunks, the checksum run_process_pool
\* returns is the checksum run_serial returns for the same list: the sum, over
\* all repetitions, of the lengths of the transformed items.
C1_ChecksumsAgree ==
    /\ pc \in {"check", "print", "done"} =>
          process_pool_checksum = serial_checksum
    /\ pc \in {"check", "print", "done", "returned"} =>
          process_pool_checksum = Repetitions * SumLen(MapWork(values))

\* C1 witness: main has both checksums of a two-item list whose chunks were
\* completed by the workers in the reverse of the input order, and upper-casing
\* changed the length of an item
C1_Witness ==
    /\ pc = "check"
    /\ Len(values) = 2
    /\ completed = <<2, 1>>
    /\ serial_checksum > 0
    /\ SumLen(MapWork(values)) # SumLen(values)

\* C2: in every repetition of run_process_pool the gathered list has the length
\* of the input and holds at position i the transform of input item i, whatever
\* order the chunks complete in and whichever worker processed which chunk.
C2_GatheredInInputOrder ==
    pc = "pool_gather" =>
        /\ Len(mapped) <= Len(values)
        /\ mapped = MapWork(SubSeq(values, 1, Len(mapped)))
        /\ AllGathered => Len(mapped) = Len(values)

\* C2 witness: a complete gathered list of two distinct items whose chunks
\* went to different workers and completed in the reverse of the input order
C2_Witness ==
    /\ pc = "pool_gather"
    /\ AllGathered
    /\ Len(values) = 2
    /\ values[1] # values[2]
    /\ Len(chunks) = 2
    /\ chunks[1].worker # chunks[2].worker
    /\ completed = <<2, 1>>

\* C3: once run_ssg_benchmark has returned or raised, on every exit path, the
\* scratch directory base_dir it created no longer exists.
C3_ScratchDirRemoved ==
    s_pc \in {"returned", "raised"} => "base_dir" \notin dirs

\* C4: in main of the process-pool harness, differing checksums abort the run
\* with an error naming both and no output line is printed; an output line is
\* only ever printed in a state where the two checksums are equal.
C4_MismatchAbortsBeforeOutput ==
    /\ output # <<>> => serial_checksum = process_pool_checksum
    /\ pc = "print" => serial_checksum = process_pool_checksum
    /\ (pc # "check" /\ serial_checksum # process_pool_checksum) =>
          /\ pc = "raised"
          /\ error = "RuntimeError: Checksum mismatch"
          /\ error_args = <<serial_checksum, process_pool_checksum>>
          /\ output = <<>>

\* C4 witness: the run was aborted on the checksums 3 and 5, nothing printed
C4_Witness ==
    /\ pc = "raised"
    /\ error_args = <<3, 5>>
    /\ output = <<>>

\* C5: the pool of run_process_pool is created exactly once per call, and once
\* control has left run_process_pool, by return or by an exception, no worker
\* process of the pool is alive: each one started has been joined.
C5_PoolTornDown ==
    /\ pool_created <= 1
    /\ LeftPool =>
          /\ pool_created = 1
          /\ \A w \in WorkerIds : workers[w] \in {"unstarted", "joined"}

\* C5 witness: an exception raised by the transform in a worker has left
\* run_process_pool after another chunk had completed, and the workers are joined
C5_Witness ==
    /\ pc = "raised"
    /\ error = "AttributeError"
    /\ pool_created = 1
    /\ \E c \in DOMAIN chunks : chunks[c].state = "failed"
    /\ \E c \in DOMAIN chunks : chunks[c].state = "done"
    /\ \A w \in WorkerIds : Started(w) => workers[w] = "joined"
    /\ max_workers = MaxWorkers

\* C6: every record of results has an alternate-mode (VM) median > 0 and a
\* speedup equal to the baseline median over the alternate median; no record
\* carries a placeholder speedup.
C6_NoPlaceholderSpeedup ==
    \A i \in 1..Len(results) :
        /\ FracPositive(results[i].vm)
        /\ results[i].speedup = FracDiv(results[i].interp, results[i].vm)

\* C7: for every captured standard output run_benchmark returns a duration or
\* None and never raises.
C7_RunBenchmarkNeverRaises ==
    r_error # "ValueError"

\* C8: for each (benchmark, mode) the sample the median is computed from is
\* exactly the sequence of trials whose result is present, a parsed duration of
\* 0 included.
PresentValues(returned) ==
    LET kept == SelectSeq(returned, Present)
    IN [i \in 1..Len(kept) |-> kept[i].value]
C8_SampleIsPresentTrials ==
    /\ interp_times = PresentValues(interp_returned)
    /\ vm_times = PresentValues(vm_returned)

\* C9 as stated: the returned render_write_stage_ms is the returned elapsed_ms
\* minus the returned read_stage_ms, and is >= 0.
C9_StagesSumToTotal ==
    s_pc = "returned" =>
        /\ render_write_stage_ms = elapsed_ms - read_stage_ms
        /\ render_write_stage_ms >= 0

\* C9 as amended: the returned render_write_stage_ms is >= 0 and, added to the
\* returned read_stage_ms, is at most the returned elapsed_ms; what is missing
\* is the time between the clock reading that closes the render/write stage
\* and the later reading elapsed_ms is computed from.
C9_StagesWithinTotal ==
    s_pc = "returned" =>
        /\ render_write_stage_ms >= 0
        /\ render_write_stage_ms + read_stage_ms <= elapsed_ms
        /\ elapsed_ms - (render_write_stage_ms + read_stage_ms)
              = (readings[4] - readings[3]) * 1000

\* C9 witness: a returned call in which both stages took time and the clock
\* advanced between the last two readings
C9_Witness ==
    /\ s_pc = "returned"
    /\ read_stage_ms > 0
    /\ render_write_stage_ms > 0
    /\ readings[4] > readings[3]

\* C10: whatever trials are present or absent, the case of no record at all
\* included, main finishes every benchmark and terminates normally with an
\* average line and a verdict (a trial that itself raises is C7's subject).
C10_MainTerminatesNormally ==
    r_pc = "raised" => r_error = "ValueError"

====
